---- MODULE Spec2Model ----
(***************************************************************************)
(* Model of the electric-vehicle dashboard: the DuckDB table vehicle_data  *)
(* (src/src/database.py), the filter manager (src/src/filters.py) and the  *)
(* four KPI queries.                                                       *)
(*                                                                         *)
(* Text is a sequence of one-character strings, so that the SQL text the   *)
(* code builds, and the CSV cells pandas parses, are modelled character by *)
(* character.  Of the 22 columns of the table the model keeps the nine the *)
(* operations read: the four required ones, the four numeric ones the KPIs *)
(* aggregate and one optional VARCHAR column (battery_type).               *)
(***************************************************************************)
EXTENDS Integers, Sequences, FiniteSets, TLC

VARIABLES
    table,             \* the rows of vehicle_data, in insertion order
    call,              \* the last operation: its name, argument and result
    selected_filters,  \* the mapping the caller hands to FilterManager
    session_state      \* st.session_state: data_loaded and record_count

vars == <<table, call, selected_filters, session_state>>

\* st.session_state after _initialize_session_state in a new session
NewSession == [data_loaded |-> FALSE, record_count |-> 0]

-----------------------------------------------------------------------------
(* Bounds *)

\* largest number of rows the table holds in the model
MaxRows == 2

\* largest number of data lines in one CSV file
MaxBatch == 2

\* largest number of rows of a table of SpecDist
MaxDistRows == 6

-----------------------------------------------------------------------------
(* Values *)

\* SQL NULL / pandas NaN in a VARCHAR (object) column
NULL == <<"NULL">>

\* SQL NULL / pandas NaN in a numeric column
NaN == 0 - 1

\* the characters of the model in ASCII order (ORDER BY uses binary collation)
Ascii == <<"'", ",", ".", "0", "1", "2", "3", "4", "5", "6", "7", "8", "9",
           "B", "C", "J", "L", "M", "N", "O", "S", "T", "U", "X", "x">>

Ord(c) == CHOOSE i \in 1..Len(Ascii) : Ascii[i] = c

Digits == {"0", "1", "2", "3", "4", "5", "6", "7", "8", "9"}

DigitVal(c) == Ord(c) - 4

DigitChar(d) == Ascii[d + 4]

\* the columns of vehicle_data kept by the model, in the order of CREATE TABLE
Schema == <<"brand", "model", "battery_capacity_kWh", "battery_type",
            "efficiency_wh_per_km", "range_km", "acceleration_0_100_s",
            "segment", "car_body_type">>

Columns == {Schema[i] : i \in 1..Len(Schema)}

\* the columns declared VARCHAR; the others are DECIMAL
VarcharColumns == {"brand", "model", "battery_type", "segment", "car_body_type"}

\* the columns load_csv passes through pd.to_numeric
numeric_columns == {"battery_capacity_kWh", "efficiency_wh_per_km", "range_km",
                    "acceleration_0_100_s"}

\* the columns of dropna(subset=...)
required_columns == {"brand", "model", "segment", "car_body_type"}

-----------------------------------------------------------------------------
(* CSV files *)

\* one data line of a CSV file: the text of the cell under each column name
Line(b, m, cap, bt, eff, rng, acc, seg, body) ==
    [c \in Columns |->
        CASE c = "brand" -> b
          [] c = "model" -> m
          [] c = "battery_capacity_kWh" -> cap
          [] c = "battery_type" -> bt
          [] c = "efficiency_wh_per_km" -> eff
          [] c = "range_km" -> rng
          [] c = "acceleration_0_100_s" -> acc
          [] c = "segment" -> seg
          [] c = "car_body_type" -> body]

\* a complete line
LineComplete ==
    Line(<<"T">>, <<"M">>, <<"7">>, <<"L">>, <<"2">>, <<"5">>, <<"4">>, <<"C">>, <<"S">>)

\* a line without battery_type
LineOptionalMissing ==
    Line(<<"T">>, <<"M">>, <<"7">>, <<>>, <<"2">>, <<"3">>, <<"6">>, <<"J">>, <<"U">>)

\* a line with text in two numeric cells and without range_km
LineBadNumbers ==
    Line(<<"B">>, <<"M">>, <<"x">>, <<"L">>, <<"2">>, <<>>, <<"x">>, <<"C">>, <<"U">>)

\* a line whose brand holds an apostrophe
LineApostrophe ==
    Line(<<"O", "'", "N">>, <<"M">>, <<"8">>, <<"L">>, <<"3">>, <<"7">>, <<"2">>, <<"J">>, <<"S">>)

\* a line without brand
LineNoBrand ==
    Line(<<>>, <<"M">>, <<"8">>, <<"L">>, <<"3">>, <<"7">>, <<"2">>, <<"C">>, <<"S">>)

\* a line without car_body_type
LineNoBodyType ==
    Line(<<"B">>, <<"M">>, <<"8">>, <<"L">>, <<"3">>, <<"7">>, <<"2">>, <<"C">>, <<>>)

\* the data lines the model's CSV files are made of
CsvLines == {LineComplete, LineOptionalMissing, LineBadNumbers, LineApostrophe,
             LineNoBrand, LineNoBodyType}

\* the data lines of the files whose header is not in schema order
PermutedLines == {LineOptionalMissing, LineBadNumbers, LineNoBrand}

Swap(s, i, j) == [k \in 1..Len(s) |-> IF k = i THEN s[j] ELSE IF k = j THEN s[i] ELSE s[k]]

\* the headers of the model's CSV files: the schema order, brand and
\* battery_type exchanged, model and range_km exchanged, and a header
\* without the car_body_type column
Headers == { Schema, Swap(Schema, 1, 4), Swap(Schema, 2, 6), SubSeq(Schema, 1, 8) }

SeqsUpTo(S, n) == UNION {[1..k -> S] : k \in 0..n}

\* a file pd.read_csv cannot read: the empty file, without a header line
EmptyFile == [header |-> <<>>, lines |-> <<>>]

\* a CSV file: its header line and its data lines
Batches ==
    [header : {Schema}, lines : SeqsUpTo(CsvLines, MaxBatch)]
        \cup [header : Headers \ {Schema}, lines : SeqsUpTo(PermutedLines, MaxBatch)]
        \cup {EmptyFile}

-----------------------------------------------------------------------------
(* pandas *)

IsNumericText(t) == Len(t) > 0 /\ \A i \in 1..Len(t) : t[i] \in Digits

RECURSIVE ParseNat(_)
ParseNat(t) == IF Len(t) = 0 THEN 0
               ELSE 10 * ParseNat(SubSeq(t, 1, Len(t) - 1)) + DigitVal(t[Len(t)])

\* pd.to_numeric(errors='coerce') on one cell
to_numeric(t) == IF IsNumericText(t) THEN ParseNat(t) ELSE NaN

\* pd.read_csv on one cell of a text column: the empty cell is NaN
read_cell(t) == IF Len(t) = 0 THEN NULL ELSE t

\* the data frame after read_csv and the to_numeric loop: one record per data
\* line, with the columns the header names
DataFrame(batch) ==
    LET cols == {batch.header[i] : i \in 1..Len(batch.header)}
    IN  [k \in 1..Len(batch.lines) |->
            [c \in cols |-> IF c \in numeric_columns
                            THEN to_numeric(batch.lines[k][c])
                            ELSE read_cell(batch.lines[k][c])]]

IsNA(c, v) == IF c \in numeric_columns THEN v = NaN ELSE v = NULL

\* df.dropna(subset=[...], how='any')
dropna(df, subset) == SelectSeq(df, LAMBDA r : \A c \in subset : ~IsNA(c, r[c]))

-----------------------------------------------------------------------------
(* DuckDB *)

\* the marker of a value DuckDB cannot cast to the column's type
CastError == 0 - 2

RECURSIVE NatText(_)
NatText(n) == IF n < 10 THEN <<DigitChar(n)>>
              ELSE NatText(n \div 10) \o <<DigitChar(n % 10)>>

\* the text DuckDB gives a number of a pandas column: an int64 column casts
\* to '5', a float64 column (one that holds a NaN) to '5.0'
NumText(n, isFloat) == IF isFloat THEN NatText(n) \o <<".", "0">> ELSE NatText(n)

\* the value INSERT stores in column target for the value v of the data
\* frame's column source: the i-th column of SELECT * goes to the i-th
\* column of the table, cast to its type
Cast(source, target, v, isFloat) ==
    IF IsNA(source, v)
    THEN IF target \in VarcharColumns THEN NULL ELSE NaN
    ELSE CASE source \in numeric_columns /\ target \in VarcharColumns -> NumText(v, isFloat)
           [] source \in numeric_columns /\ target \notin VarcharColumns -> v
           [] source \notin numeric_columns /\ target \in VarcharColumns -> v
           [] OTHER -> IF IsNumericText(v) THEN ParseNat(v) ELSE CastError

\* INSERT INTO vehicle_data SELECT * FROM temp_df: the rows the statement
\* stores, by position
InsertedRows(df, full, header) ==
    [k \in 1..Len(df) |->
        [c \in Columns |->
            LET j == CHOOSE i \in 1..Len(Schema) : Schema[i] = c
                src == header[j]
                isFloat == \E n \in 1..Len(full) : IsNA(src, full[n][src])
            IN  Cast(src, c, df[k][src], isFloat)]]

InsertFails(rows) ==
    \E k \in 1..Len(rows) : \E c \in Columns \ VarcharColumns : rows[k][c] = CastError

\* a _create_schema that would create the table anew over the one the file
\* holds
create_schema_replacing(file) == <<>>

\* DuckDBManager._create_schema on the connected database file: CREATE TABLE
\* IF NOT EXISTS creates the empty table in a new file and keeps the table,
\* with its rows, of a file that has one; file is the rows the file holds
create_schema(file) == file

\* a load_csv that would empty the table when it fails
load_csv_clearing_on_error(tbl, batch) ==
    LET cols == {batch.header[i] : i \in 1..Len(batch.header)}
        full == DataFrame(batch)
    IN  IF Len(batch.header) = 0 \/ ~(required_columns \subseteq cols)
        THEN [table |-> <<>>, outcome |-> "raise", ret |-> 0]
        ELSE LET df == dropna(full, required_columns)
             IN  IF Len(df) > 0
                 THEN IF Len(batch.header) # Len(Schema)
                      THEN [table |-> <<>>, outcome |-> "raise", ret |-> 0]
                      ELSE LET rows == InsertedRows(df, full, batch.header)
                           IN  IF InsertFails(rows)
                               THEN [table |-> <<>>, outcome |-> "raise", ret |-> 0]
                               ELSE [table |-> tbl \o rows, outcome |-> "ok", ret |-> Len(df)]
                 ELSE [table |-> tbl, outcome |-> "ok", ret |-> Len(df)]

\* a load_csv that would put the rows of the file in the place of the stored
\* rows
load_csv_replacing(tbl, batch) ==
    LET cols == {batch.header[i] : i \in 1..Len(batch.header)}
        full == DataFrame(batch)
    IN  IF Len(batch.header) = 0 \/ ~(required_columns \subseteq cols)
        THEN [table |-> tbl, outcome |-> "raise", ret |-> 0]
        ELSE LET df == dropna(full, required_columns)
             IN  IF Len(df) > 0
                 THEN IF Len(batch.header) # Len(Schema)
                      THEN [table |-> tbl, outcome |-> "raise", ret |-> 0]
                      ELSE LET rows == InsertedRows(df, full, batch.header)
                           IN  IF InsertFails(rows)
                               THEN [table |-> tbl, outcome |-> "raise", ret |-> 0]
                               ELSE [table |-> rows, outcome |-> "ok", ret |-> Len(df)]
                 ELSE [table |-> tbl, outcome |-> "ok", ret |-> Len(df)]

\* DuckDBManager.load_csv: the table after the call, whether the call raised
\* and the value it returned; pd.read_csv raises on a file without a header
\* line, dropna on a frame without a required column, and the INSERT, which
\* stores all its rows or none, on a frame it cannot cast to the table
load_csv(tbl, batch) ==
    LET cols == {batch.header[i] : i \in 1..Len(batch.header)}
        full == DataFrame(batch)
    IN  IF Len(batch.header) = 0 \/ ~(required_columns \subseteq cols)
        THEN [table |-> tbl, outcome |-> "raise", ret |-> 0]
        ELSE LET df == dropna(full, required_columns)
             IN  IF Len(df) > 0
                 THEN IF Len(batch.header) # Len(Schema)
                      THEN [table |-> tbl, outcome |-> "raise", ret |-> 0]
                      ELSE LET rows == InsertedRows(df, full, batch.header)
                           IN  IF InsertFails(rows)
                               THEN [table |-> tbl, outcome |-> "raise", ret |-> 0]
                               ELSE [table |-> tbl \o rows, outcome |-> "ok", ret |-> Len(df)]
                 ELSE [table |-> tbl, outcome |-> "ok", ret |-> Len(df)]

\* a clear_all_data whose DELETE removes nothing
clear_all_data_keeps_rows(tbl) == tbl

\* DuckDBManager.clear_all_data: DELETE FROM vehicle_data
clear_all_data(tbl) == <<>>

\* DuckDBManager.get_record_count: SELECT COUNT(*) FROM vehicle_data
get_record_count(tbl) == Len(tbl)

\* a < b in the binary collation of VARCHAR
TextLess(a, b) ==
    \E i \in 1..(Len(a) + 1) :
        /\ \A k \in 1..(i - 1) : k <= Len(b) /\ a[k] = b[k]
        /\ i <= Len(b)
        /\ (i > Len(a) \/ Ord(a[i]) < Ord(b[i]))

\* a < b in the order of the column's type
ValueLess(column, a, b) == IF column \in VarcharColumns THEN TextLess(a, b) ELSE a < b

\* the elements of s
Elements(s) == {s[i] : i \in 1..Len(s)}

\* the stable sort of s, as ORDER BY and sort_values give it; before is the
\* set of the pairs <<a, b>> of elements of which a sorts before b
SortBy(s, before) ==
    LET Rank(i) == 1 + Cardinality({j \in 1..Len(s) :
                        \/ <<s[j], s[i]>> \in before
                        \/ (<<s[i], s[j]>> \notin before /\ j < i)})
    IN  [p \in 1..Len(s) |-> s[CHOOSE i \in 1..Len(s) : Rank(i) = p]]

\* the first occurrences of the values of s, in the order of s
Distinct(s) == 
    LET First(i) == \A j \in 1..(i - 1) : s[j] # s[i]
        Keep == {i \in 1..Len(s) : First(i)}
    IN  [p \in 1..Cardinality(Keep) |->
            s[CHOOSE i \in Keep : Cardinality({j \in Keep : j < i}) = p - 1]]

\* a get_distinct_values without ORDER BY
get_distinct_values_unordered(tbl, column) ==
    LET vals == [i \in 1..Len(tbl) |-> tbl[i][column]]
    IN  Distinct(SelectSeq(vals, LAMBDA v : ~IsNA(column, v)))

\* DuckDBManager.get_distinct_values: SELECT DISTINCT column FROM vehicle_data
\* WHERE column IS NOT NULL ORDER BY column
get_distinct_values(tbl, column) ==
    LET vals == [i \in 1..Len(tbl) |-> tbl[i][column]]
        present == SelectSeq(vals, LAMBDA v : ~IsNA(column, v))
    IN  SortBy(Distinct(present),
               {p \in Elements(present) \X Elements(present) : ValueLess(column, p[1], p[2])})

\* f"'{v}'"
Quote(v) == <<"'">> \o v \o <<"'">>

\* sep.join(parts)
RECURSIVE Join(_, _)
Join(sep, parts) ==
    IF Len(parts) = 0 THEN <<>>
    ELSE IF Len(parts) = 1 THEN parts[1]
    ELSE parts[1] \o sep \o Join(sep, Tail(parts))

\* ','.join([f"'{v}'" for v in values])
Placeholders(values) == Join(<<",">>, [i \in 1..Len(values) |-> Quote(values[i])])

\* a query text with a part for every entry of the mapping, the entries with
\* an empty list too: column IN ()
WhereClausesAllEntries(filters) ==
    [i \in 1..Len(filters) |->
        [column |-> filters[i][1], inlist |-> Placeholders(filters[i][2])]]

\* the " AND column IN (placeholders)" parts query_with_filters appends to the
\* query text: one per entry of the mapping whose list is not empty
WhereClauses(filters) ==
    LET used == SelectSeq(filters, LAMBDA e : Len(e[2]) > 0)
    IN  [i \in 1..Len(used) |-> [column |-> used[i][1], inlist |-> Placeholders(used[i][2])]]

\* DuckDB's lexer on a string constant: t[i] is the character after the
\* opening quote; '' inside the constant is one quote, a single quote ends it
RECURSIVE LexString(_, _, _)
LexString(t, i, acc) ==
    IF i > Len(t) THEN [ok |-> FALSE, lit |-> acc, next |-> i]
    ELSE IF t[i] = "'"
         THEN IF i + 1 <= Len(t) /\ t[i + 1] = "'"
              THEN LexString(t, i + 2, Append(acc, "'"))
              ELSE [ok |-> TRUE, lit |-> acc, next |-> i + 1]
         ELSE LexString(t, i + 1, Append(acc, t[i]))

\* DuckDB's parser on the text between the parentheses of IN (...): string
\* constants separated by commas, anything else is a syntax error
RECURSIVE ParseInList(_, _, _)
ParseInList(t, i, lits) ==
    IF i > Len(t) \/ t[i] # "'" THEN [ok |-> FALSE, lits |-> lits]
    ELSE LET s == LexString(t, i + 1, <<>>)
         IN  IF ~s.ok THEN [ok |-> FALSE, lits |-> lits]
             ELSE IF s.next > Len(t) THEN [ok |-> TRUE, lits |-> Append(lits, s.lit)]
             ELSE IF t[s.next] = "," THEN ParseInList(t, s.next + 1, Append(lits, s.lit))
             ELSE [ok |-> FALSE, lits |-> lits]

\* column IN (lits) on one row: NULL IN (...) is not true
InPredicate(row, column, lits) ==
    /\ row[column] # NULL
    /\ \E k \in 1..Len(lits) : lits[k] = row[column]

\* DuckDBManager.query_with_filters: whether conn.execute raised, and the
\* rows of the data frame it returned
query_with_filters(tbl, filters) ==
    LET clauses == WhereClauses(filters)
        parsed == [i \in 1..Len(clauses) |-> ParseInList(clauses[i].inlist, 1, <<>>)]
    IN  IF \E i \in 1..Len(clauses) : ~parsed[i].ok
        THEN [outcome |-> "raise", rows |-> <<>>]
        ELSE [outcome |-> "ok",
              rows |-> SelectSeq(tbl, LAMBDA r :
                          \A i \in 1..Len(clauses) :
                              InPredicate(r, clauses[i].column, parsed[i].lits))]

\* df.groupby(key)[column].mean().reset_index(): one row per value of key
\* that is not NaN, in ascending order of the key; the mean is kept as the
\* sum and the number of the values of column that are not NaN (n = 0 is the
\* NaN mean of a group without a value)
GroupMean(rows, key, column) ==
    LET keys == get_distinct_values(rows, key)
        InGroup(k) == SelectSeq(rows, LAMBDA r : r[key] = k /\ r[column] # NaN)
        RECURSIVE Sum(_)
        Sum(g) == IF Len(g) = 0 THEN 0 ELSE g[1][column] + Sum(Tail(g))
    IN  [i \in 1..Len(keys) |->
            [key |-> keys[i], sum |-> Sum(InGroup(keys[i])), n |-> Len(InGroup(keys[i]))]]

\* a > b for two means, NaN being no number
MeanGreater(a, b) == a.n > 0 /\ b.n > 0 /\ a.sum * b.n > b.sum * a.n

\* DuckDBManager.calculate_kpi_1_range_by_segment
calculate_kpi_1_range_by_segment(tbl, filters) ==
    LET q == query_with_filters(tbl, filters)
    IN  IF q.outcome = "raise" THEN q
        ELSE IF Len(q.rows) = 0 THEN [outcome |-> "ok", rows |-> <<>>]
        ELSE LET result == GroupMean(q.rows, "segment", "range_km")
             IN  [outcome |-> "ok",
                  rows |-> SortBy(result, {p \in Elements(result) \X Elements(result) :
                              MeanGreater(p[1], p[2]) \/ (p[1].n > 0 /\ p[2].n = 0)})]

\* DuckDBManager.calculate_kpi_2_acceleration_by_brand
calculate_kpi_2_acceleration_by_brand(tbl, filters) ==
    LET q == query_with_filters(tbl, filters)
    IN  IF q.outcome = "raise" THEN q
        ELSE IF Len(q.rows) = 0 THEN [outcome |-> "ok", rows |-> <<>>]
        ELSE LET result == GroupMean(q.rows, "brand", "acceleration_0_100_s")
             IN  [outcome |-> "ok",
                  rows |-> SortBy(result, {p \in Elements(result) \X Elements(result) :
                              MeanGreater(p[2], p[1]) \/ (p[1].n > 0 /\ p[2].n = 0)})]

\* the columns calculate_kpi_3_battery_vs_efficiency projects
kpi_3_columns == {"battery_capacity_kWh", "efficiency_wh_per_km", "segment", "brand", "model"}

\* DuckDBManager.calculate_kpi_3_battery_vs_efficiency
calculate_kpi_3_battery_vs_efficiency(tbl, filters) ==
    LET q == query_with_filters(tbl, filters)
    IN  IF q.outcome = "raise" THEN q
        ELSE IF Len(q.rows) = 0 THEN [outcome |-> "ok", rows |-> <<>>]
        ELSE LET projected == [i \in 1..Len(q.rows) |->
                                  [c \in kpi_3_columns |-> q.rows[i][c]]]
             IN  [outcome |-> "ok", rows |-> dropna(projected, kpi_3_columns)]

\* a percentage cut after the second decimal instead of rounded
PercentageTruncated(count, total) == (count * 10000) \div total

\* round(x, 2) of x = count / total * 100, in hundredths: to the nearest
\* hundredth, a tie to the even one
Percentage(count, total) ==
    LET q == (count * 10000) \div total
        r == (count * 10000) % total
    IN  IF 2 * r > total \/ (2 * r = total /\ q % 2 = 1) THEN q + 1 ELSE q

RECURSIVE SumCounts(_)
SumCounts(result) == IF Len(result) = 0 THEN 0 ELSE result[1].count + SumCounts(Tail(result))

\* df['car_body_type'].value_counts().reset_index(): one row per body type
\* that is not NaN, the most frequent first
value_counts(rows, column) ==
    LET vals == [i \in 1..Len(rows) |-> rows[i][column]]
        keys == Distinct(SelectSeq(vals, LAMBDA v : ~IsNA(column, v)))
        counted == [i \in 1..Len(keys) |->
                       [key |-> keys[i],
                        count |-> Len(SelectSeq(vals, LAMBDA v : v = keys[i]))]]
    IN  SortBy(counted, {p \in Elements(counted) \X Elements(counted) : p[1].count > p[2].count})

\* DuckDBManager.calculate_kpi_4_distribution_by_body_type; percentage is in
\* hundredths of a percent
calculate_kpi_4_distribution_by_body_type(tbl, filters) ==
    LET q == query_with_filters(tbl, filters)
    IN  IF q.outcome = "raise" THEN q
        ELSE IF Len(q.rows) = 0 THEN [outcome |-> "ok", rows |-> <<>>]
        ELSE LET result == value_counts(q.rows, "car_body_type")
                 total == SumCounts(result)
                 withPct == [i \in 1..Len(result) |->
                                [key |-> result[i].key, count |-> result[i].count,
                                 percentage |-> Percentage(result[i].count, total)]]
             IN  [outcome |-> "ok",
                  rows |-> SortBy(withPct, {p \in Elements(withPct) \X Elements(withPct) :
                              p[1].count > p[2].count})]

-----------------------------------------------------------------------------
(* Filter mappings: a dict is the sequence of its <<key, list>> entries *)

Entry(key, lists) == {<<>>} \cup {<< <<key, l>> >> : l \in lists}

\* the filter mappings the model passes to the queries: a brand entry, a
\* segment entry or both, or a car_body_type entry; an entry with the empty
\* list is what an unvalidated selection holds
Selections ==
    {b \o g :
        b \in Entry("brand", {<<>>, << <<"T">> >>, << <<"T">>, <<"B">> >>,
                               << <<"O", "'", "N">> >>}),
        g \in Entry("segment", {<< <<"C">> >>})}
        \cup Entry("car_body_type", {<< <<"U">> >>})

-----------------------------------------------------------------------------
(* The operations of DuckDBManager as steps *)

NoArg == <<>>

\* the state after DuckDBManager.__init__ on a new database file
Init ==
    /\ table = create_schema(<<>>)
    /\ call = [op |-> "init", arg |-> NoArg, outcome |-> "ok", ret |-> 0, before |-> 0]
    /\ selected_filters = <<>>
    /\ session_state = NewSession

LoadCsv ==
    \E batch \in Batches :
        /\ Len(table) + Len(batch.lines) <= MaxRows
        /\ LET r == load_csv(table, batch)
           IN  /\ table' = r.table
               /\ call' = [op |-> "load_csv", arg |-> batch, outcome |-> r.outcome,
                           ret |-> r.ret, before |-> get_record_count(table)]
               /\ UNCHANGED <<selected_filters, session_state>>

\* a later run on the same database file: close() and a new DuckDBManager,
\* as every run of main() makes one
NewDuckDBManager ==
    /\ table' = create_schema(table)
    /\ call' = [op |-> "init", arg |-> NoArg, outcome |-> "ok", ret |-> 0,
                before |-> get_record_count(table)]
    /\ UNCHANGED <<selected_filters, session_state>>

ClearAllData ==
    /\ table' = clear_all_data(table)
    /\ call' = [op |-> "clear_all_data", arg |-> NoArg, outcome |-> "ok", ret |-> 0,
                before |-> get_record_count(table)]
    /\ UNCHANGED <<selected_filters, session_state>>

\* the call record of get_record_count also keeps which operation it follows
\* and the number of rows that operation found
GetRecordCount ==
    /\ call' = [op |-> "get_record_count", arg |-> NoArg, outcome |-> "ok",
                ret |-> get_record_count(table), before |-> get_record_count(table),
                after |-> [op |-> call.op, before |-> call.before]]
    /\ UNCHANGED <<table, selected_filters, session_state>>

GetDistinctValues ==
    \E column \in Columns :
        /\ call' = [op |-> "get_distinct_values", arg |-> column, outcome |-> "ok",
                    ret |-> get_distinct_values(table, column),
                    before |-> get_record_count(table)]
        /\ UNCHANGED <<table, selected_filters, session_state>>

\* a read operation with a filter mapping: the call record keeps the mapping,
\* whether the call raised and the rows of the table it returned
Read(name, r, filters) ==
    /\ call' = [op |-> name, arg |-> filters, outcome |-> r.outcome, ret |-> r.rows,
                before |-> get_record_count(table)]
    /\ UNCHANGED <<table, selected_filters, session_state>>

QueryWithFilters ==
    \E f \in Selections : Read("query_with_filters", query_with_filters(table, f), f)

CalculateKpi1 ==
    \E f \in Selections :
        Read("calculate_kpi_1_range_by_segment", calculate_kpi_1_range_by_segment(table, f), f)

CalculateKpi2 ==
    \E f \in Selections :
        Read("calculate_kpi_2_acceleration_by_brand",
             calculate_kpi_2_acceleration_by_brand(table, f), f)

CalculateKpi3 ==
    \E f \in Selections :
        Read("calculate_kpi_3_battery_vs_efficiency",
             calculate_kpi_3_battery_vs_efficiency(table, f), f)

CalculateKpi4 ==
    \E f \in Selections :
        Read("calculate_kpi_4_distribution_by_body_type",
             calculate_kpi_4_distribution_by_body_type(table, f), f)

Next ==
    \/ NewDuckDBManager
    \/ LoadCsv
    \/ ClearAllData
    \/ GetRecordCount
    \/ GetDistinctValues
    \/ QueryWithFilters
    \/ CalculateKpi1
    \/ CalculateKpi2
    \/ CalculateKpi3
    \/ CalculateKpi4

Spec == Init /\ [][Next]_vars

-----------------------------------------------------------------------------
(* Properties of the table *)

HeaderColumns(batch) == {batch.header[i] : i \in 1..Len(batch.header)}

\* the data lines of a CSV file in which the four required cells are present
ValidLines(batch) ==
    {k \in 1..Len(batch.lines) : \A c \in required_columns : batch.lines[k][c] # <<>>}

\* a filter set in the sense of the data model: every entry has a list that
\* is not empty
IsFilterSet(filters) == \A i \in 1..Len(filters) : Len(filters[i][2]) > 0

\* the row has, for every entry of the mapping, a value of the entry's list
Matches(row, filters) ==
    \A i \in 1..Len(filters) :
        \E k \in 1..Len(filters[i][2]) : filters[i][2][k] = row[filters[i][1]]

FilterOps == {"query_with_filters", "calculate_kpi_1_range_by_segment",
              "calculate_kpi_2_acceleration_by_brand",
              "calculate_kpi_3_battery_vs_efficiency",
              "calculate_kpi_4_distribution_by_body_type"}

\* C1: for every CSV file that has the four required columns, load_csv
\* returns the number of its lines in which the four required cells are
\* present, and the record count after the call is the count before it plus
\* the returned number (0 rows and an unchanged count when no line is valid).
C1_LoadReturnsValidCount ==
    (call.op = "load_csv" /\ required_columns \subseteq HeaderColumns(call.arg))
        => /\ call.outcome = "ok"
           /\ call.ret = Cardinality(ValidLines(call.arg))
           /\ get_record_count(table) = call.before + call.ret

\* C2: every stored row has brand, model, segment and car_body_type that are
\* not NULL.
C2_RequiredFieldsStored ==
    \A i \in 1..Len(table) : \A c \in required_columns : table[i][c] # NULL

\* C3: for every filter set, query_with_filters returns the stored rows, in
\* their multiplicity, that have for every field of the filter set a value of
\* the field's list.
C3_QueryReturnsMatchingRows ==
    (call.op = "query_with_filters" /\ IsFilterSet(call.arg))
        => /\ call.outcome = "ok"
           /\ call.ret = SelectSeq(table, LAMBDA r : Matches(r, call.arg))

\* C4: get_record_count right after clear_all_data returns 0, whatever was
\* loaded before, and the table is still there: a load_csv right after
\* clear_all_data of a file in schema order returns, and the table then holds
\* the rows it counted.
C4_ClearThenCount ==
    /\ []((call.op = "get_record_count" /\ call.after.op = "clear_all_data")
            => call.ret = 0)
    /\ [][(call.op = "clear_all_data" /\ call'.op = "load_csv"
             /\ call'.arg.header = Schema)
            => (call'.outcome = "ok" /\ get_record_count(table') = call'.ret)]_vars

\* a get_record_count that follows a clear_all_data which found rows
C4_Witness ==
    /\ call.op = "get_record_count"
    /\ call.after.op = "clear_all_data"
    /\ call.after.before > 0

\* C5: get_distinct_values returns a list in strictly ascending order (so
\* without a duplicate), without NULL, whose elements are the values of the
\* column that are not NULL over the stored rows.
C5_DistinctValuesSorted ==
    call.op = "get_distinct_values"
        => LET column == call.arg
               ret == call.ret
           IN  /\ \A i \in 1..(Len(ret) - 1) : ValueLess(column, ret[i], ret[i + 1])
               /\ \A i \in 1..Len(ret) : ~IsNA(column, ret[i])
               /\ {ret[i] : i \in 1..Len(ret)}
                    = {table[i][column] : i \in 1..Len(table)}
                        \ (IF column \in numeric_columns THEN {NaN} ELSE {NULL})

\* get_distinct_values on a table that holds the column's values out of
\* order, twice, or as NULL
C5_Witness ==
    /\ call.op = "get_distinct_values"
    /\ Len(table) = 2
    /\ \/ ValueLess(call.arg, table[2][call.arg], table[1][call.arg])
          /\ ~IsNA(call.arg, table[2][call.arg])
          /\ Len(call.ret) = 2
       \/ IsNA(call.arg, table[1][call.arg]) /\ Len(call.ret) = 1
       \/ table[1][call.arg] = table[2][call.arg] /\ Len(call.ret) = 1

\* C7: when the filter set matches no stored row, query_with_filters and the
\* four KPI operations return the empty table and do not raise.
C7_EmptyResultIsNoError ==
    (/\ call.op \in FilterOps
     /\ IsFilterSet(call.arg)
     /\ \A i \in 1..Len(table) : ~Matches(table[i], call.arg))
        => (call.outcome = "ok" /\ call.ret = <<>>)

RECURSIVE SumOf(_, _)
SumOf(rows, column) ==
    IF Len(rows) = 0 THEN 0 ELSE rows[1][column] + SumOf(Tail(rows), column)

\* C10: for every filter set, calculate_kpi_1_range_by_segment returns one
\* row per segment of the filtered rows, with the mean of range_km over the
\* filtered rows of the segment that have a range_km, in descending order of
\* the mean.
C10_RangeBySegment ==
    (call.op = "calculate_kpi_1_range_by_segment" /\ IsFilterSet(call.arg))
        => LET filtered == SelectSeq(table, LAMBDA r : Matches(r, call.arg))
               segments == {filtered[i]["segment"] : i \in 1..Len(filtered)} \ {NULL}
               WithRange(g) == SelectSeq(filtered, LAMBDA r :
                                   r["segment"] = g /\ r["range_km"] # NaN)
               ret == call.ret
           IN  /\ call.outcome = "ok"
               /\ Len(ret) = Cardinality(segments)
               /\ {ret[i].key : i \in 1..Len(ret)} = segments
               /\ \A i \in 1..Len(ret) :
                     /\ ret[i].n = Len(WithRange(ret[i].key))
                     /\ ret[i].sum = SumOf(WithRange(ret[i].key), "range_km")
               /\ \A i, j \in 1..Len(ret) : i < j => ~MeanGreater(ret[j], ret[i])

-----------------------------------------------------------------------------
(* The body-type distribution on larger tables *)

\* the body types of the tables of SpecDist
BodyTypes == << <<"S">>, <<"U">>, <<"C">>, <<"J">>, <<"L">>, <<"M">> >>

\* the stored row of a complete line with the given body type
DistRow(t) ==
    [load_csv(<<>>, [header |-> Schema, lines |-> <<LineComplete>>]).table[1]
        EXCEPT !["car_body_type"] = BodyTypes[t]]

\* the tables of SpecDist: up to MaxDistRows rows, grouped by body type
DistTables ==
    {[i \in 1..Len(s) |-> DistRow(s[i])] :
        s \in {q \in SeqsUpTo(1..Len(BodyTypes), MaxDistRows) :
                  \A i \in 1..(Len(q) - 1) : q[i] <= q[i + 1]}}

DistSelections ==
    {<<>>, << <<"brand", << <<"T">> >> >> >>,
     << <<"car_body_type", << <<"S">>, <<"U">>, <<"C">> >> >> >>}

InitDist ==
    /\ table \in DistTables
    /\ call = [op |-> "init", arg |-> NoArg, outcome |-> "ok", ret |-> 0, before |-> 0]
    /\ selected_filters = <<>>
    /\ session_state = NewSession

Kpi4Distribution ==
    \E f \in DistSelections :
        Read("calculate_kpi_4_distribution_by_body_type",
             calculate_kpi_4_distribution_by_body_type(table, f), f)

NextDist == Kpi4Distribution

SpecDist == InitDist /\ [][NextDist]_vars

RECURSIVE SumPercentages(_)
SumPercentages(result) ==
    IF Len(result) = 0 THEN 0 ELSE result[1].percentage + SumPercentages(Tail(result))

Abs(x) == IF x < 0 THEN 0 - x ELSE x

\* C6 as stated: whenever calculate_kpi_4_distribution_by_body_type returns
\* rows, their percentages sum to 100.00 within 0.01.
C6_PercentagesSumTo100 ==
    (call.op = "calculate_kpi_4_distribution_by_body_type" /\ call.outcome = "ok"
        /\ Len(call.ret) > 0)
        => Abs(SumPercentages(call.ret) - 10000) <= 1

\* C6 as amended: whenever calculate_kpi_4_distribution_by_body_type returns
\* rows, their percentages sum to 100.00 within 0.005 times the number of
\* rows (of body types) returned.
C6_PercentagesSumWithinHalfPerRow ==
    (call.op = "calculate_kpi_4_distribution_by_body_type" /\ call.outcome = "ok"
        /\ Len(call.ret) > 0)
        => 2 * Abs(SumPercentages(call.ret) - 10000) <= Len(call.ret)

\* a distribution over six body types whose percentages do not sum to 100.00
C6_Witness ==
    /\ call.op = "calculate_kpi_4_distribution_by_body_type"
    /\ call.outcome = "ok"
    /\ Len(call.ret) = 6
    /\ SumPercentages(call.ret) # 10000

-----------------------------------------------------------------------------
(* FilterManager *)

\* longest list of values of an entry of a selection
MaxValues == 2

FilterKeys == {"brand", "segment", "car_body_type"}

FilterValues == {<<"T">>, <<"B">>}

\* the name of a field as text
KeyText(key) ==
    CASE key = "brand" -> <<"b", "r", "a", "n", "d">>
      [] key = "segment" -> <<"s", "e", "g", "m", "e", "n", "t">>
      [] key = "car_body_type" ->
            <<"c", "a", "r", "_", "b", "o", "d", "y", "_", "t", "y", "p", "e">>

\* "Aucun filtre appliqué"
NoFilterText ==
    <<"A", "u", "c", "u", "n", " ", "f", "i", "l", "t", "r", "e", " ",
      "a", "p", "p", "l", "i", "q", "u", "é">>

\* the selections of the model: entries with different keys in any order,
\* each with a list of up to MaxValues values
FilterSelections ==
    {s \in SeqsUpTo(FilterKeys \X SeqsUpTo(FilterValues, MaxValues), Cardinality(FilterKeys)) :
        \A i, j \in 1..Len(s) : i # j => s[i][1] # s[j][1]}

\* an apply_filters that validates nothing
apply_filters_unvalidated(selected) ==
    [selected_filters |-> selected, validated_filters |-> selected]

\* FilterManager.apply_filters: the mapping it returns and the caller's
\* mapping after the call
apply_filters(selected) ==
    [selected_filters |-> selected,
     validated_filters |-> SelectSeq(selected, LAMBDA e : Len(e[2]) > 0)]

\* a summary that lists the entries without a value too
get_filter_summary_all_entries(filters) ==
    IF Len(filters) = 0 THEN NoFilterText
    ELSE Join(<<" ", "|", " ">>,
              [i \in 1..Len(filters) |->
                  KeyText(filters[i][1]) \o <<":", " ">> \o Join(<<",", " ">>, filters[i][2])])

\* FilterManager.get_filter_summary
get_filter_summary(filters) ==
    IF Len(filters) = 0 THEN NoFilterText
    ELSE LET used == SelectSeq(filters, LAMBDA e : Len(e[2]) > 0)
             summary_parts == [i \in 1..Len(used) |->
                                  KeyText(used[i][1]) \o <<":", " ">>
                                      \o Join(<<",", " ">>, used[i][2])]
         IN  IF Len(summary_parts) > 0 THEN Join(<<" ", "|", " ">>, summary_parts)
             ELSE NoFilterText

InitFilters ==
    /\ table = <<>>
    /\ call = [op |-> "init", arg |-> NoArg, outcome |-> "ok", ret |-> 0, before |-> 0]
    /\ selected_filters \in FilterSelections
    /\ session_state = NewSession

ApplyFilters ==
    LET r == apply_filters(selected_filters)
    IN  /\ selected_filters' = r.selected_filters
        /\ call' = [op |-> "apply_filters", arg |-> selected_filters, outcome |-> "ok",
                    ret |-> r.validated_filters, before |-> 0]
        /\ UNCHANGED <<table, session_state>>

GetFilterSummary ==
    /\ call' = [op |-> "get_filter_summary", arg |-> selected_filters, outcome |-> "ok",
                ret |-> get_filter_summary(selected_filters), before |-> 0]
    /\ UNCHANGED <<table, selected_filters, session_state>>

NextFilters ==
    \/ ApplyFilters
    \/ GetFilterSummary

SpecFilters == InitFilters /\ [][NextFilters]_vars

\* C8: apply_filters returns a mapping whose entries are exactly the entries
\* of the selection that have a list with a value, each with its list as
\* given, and leaves the selection as it was.
C8_ApplyFiltersKeepsNonEmpty ==
    call.op = "apply_filters"
        => /\ \A j \in 1..Len(call.ret) :
                 /\ Len(call.ret[j][2]) > 0
                 /\ \E i \in 1..Len(call.arg) : call.arg[i] = call.ret[j]
           /\ \A i \in 1..Len(call.arg) :
                 Len(call.arg[i][2]) > 0 => \E j \in 1..Len(call.ret) : call.ret[j] = call.arg[i]
           /\ \A i, j \in 1..Len(call.ret) : i # j => call.ret[i][1] # call.ret[j][1]
           /\ selected_filters = call.arg

\* apply_filters on a selection with an entry it drops and one it keeps
C8_Witness ==
    /\ call.op = "apply_filters"
    /\ Len(call.ret) > 0
    /\ Len(call.ret) < Len(call.arg)
    /\ \E j \in 1..Len(call.ret) : Len(call.ret[j][2]) = 2

\* the text of the entries from the i-th on: each entry that has a value
\* gives "key: v1, v2", with " | " before it unless it is the first
RECURSIVE SummaryFrom(_, _, _)
SummaryFrom(filters, i, first) ==
    IF i > Len(filters) THEN <<>>
    ELSE IF Len(filters[i][2]) = 0 THEN SummaryFrom(filters, i + 1, first)
    ELSE (IF first THEN <<>> ELSE <<" ", "|", " ">>)
            \o KeyText(filters[i][1]) \o <<":", " ">> \o Join(<<",", " ">>, filters[i][2])
            \o SummaryFrom(filters, i + 1, FALSE)

\* C9 as stated: get_filter_summary returns the sentinel for the empty
\* mapping, and otherwise the text of the entries that have a value.
C9_SummaryOfNonEmptyMapping ==
    call.op = "get_filter_summary"
        => call.ret = (IF Len(call.arg) = 0 THEN NoFilterText
                       ELSE SummaryFrom(call.arg, 1, TRUE))

\* C9 as amended: get_filter_summary returns the sentinel when no entry of
\* the mapping has a value (the empty mapping included), and otherwise the
\* text of the entries that have a value.
C9_SummaryOfEntriesWithValues ==
    call.op = "get_filter_summary"
        => call.ret = (IF \A i \in 1..Len(call.arg) : Len(call.arg[i][2]) = 0
                       THEN NoFilterText
                       ELSE SummaryFrom(call.arg, 1, TRUE))

\* a summary of a mapping with two entries that have values and one without
C9_Witness ==
    /\ call.op = "get_filter_summary"
    /\ Len(call.arg) = 3
    /\ Cardinality({i \in 1..3 : Len(call.arg[i][2]) > 0}) = 2
    /\ call.ret # NoFilterText

-----------------------------------------------------------------------------
(* Properties of the aggregation queries *)

\* the stored rows a filter set selects
Filtered(filters) == SelectSeq(table, LAMBDA r : Matches(r, filters))

\* C11: for every filter set, calculate_kpi_2_acceleration_by_brand returns
\* one row per brand of the filtered rows, with the mean of
\* acceleration_0_100_s over the filtered rows of the brand, in ascending
\* order of the mean: no row has a smaller mean than a row before it.
C11_AccelerationByBrand ==
    (call.op = "calculate_kpi_2_acceleration_by_brand" /\ IsFilterSet(call.arg))
        => LET filtered == Filtered(call.arg)
               brands == {filtered[i]["brand"] : i \in 1..Len(filtered)} \ {NULL}
               WithAcceleration(g) == SelectSeq(filtered, LAMBDA r :
                                         r["brand"] = g /\ r["acceleration_0_100_s"] # NaN)
               ret == call.ret
           IN  /\ call.outcome = "ok"
               /\ Len(ret) = Cardinality(brands)
               /\ {ret[i].key : i \in 1..Len(ret)} = brands
               /\ \A i \in 1..Len(ret) :
                     /\ ret[i].n = Len(WithAcceleration(ret[i].key))
                     /\ ret[i].sum = SumOf(WithAcceleration(ret[i].key),
                                           "acceleration_0_100_s")
               /\ \A i, j \in 1..Len(ret) : i < j => ~MeanGreater(ret[i], ret[j])

\* C12: for every filter set, calculate_kpi_3_battery_vs_efficiency returns
\* the five projected fields of every filtered row that has both
\* battery_capacity_kWh and efficiency_wh_per_km, one output row per such
\* row, and nothing else.
C12_BatteryVsEfficiency ==
    (call.op = "calculate_kpi_3_battery_vs_efficiency" /\ IsFilterSet(call.arg))
        => LET both == SelectSeq(Filtered(call.arg), LAMBDA r :
                           /\ r["battery_capacity_kWh"] # NaN
                           /\ r["efficiency_wh_per_km"] # NaN)
           IN  /\ call.outcome = "ok"
               /\ call.ret = [i \in 1..Len(both) |->
                                 [c \in kpi_3_columns |-> both[i][c]]]

\* C13: for every filter set, calculate_kpi_4_distribution_by_body_type
\* returns one row per car_body_type of the filtered rows, with the number of
\* filtered rows of the type, the percentage that number is of the total of
\* the counts, rounded to two decimals, in descending order of the count.
C13_DistributionByBodyType ==
    (call.op = "calculate_kpi_4_distribution_by_body_type" /\ IsFilterSet(call.arg))
        => LET filtered == Filtered(call.arg)
               types == {filtered[i]["car_body_type"] : i \in 1..Len(filtered)} \ {NULL}
               ret == call.ret
               total == SumCounts(ret)
           IN  /\ call.outcome = "ok"
               /\ Len(ret) = Cardinality(types)
               /\ {ret[i].key : i \in 1..Len(ret)} = types
               /\ \A i \in 1..Len(ret) :
                     /\ ret[i].count = Len(SelectSeq(filtered, LAMBDA r :
                                              r["car_body_type"] = ret[i].key))
                     /\ 2 * Abs(ret[i].percentage * total - ret[i].count * 10000)
                           <= total
               /\ \A i, j \in 1..Len(ret) : i < j => ret[i].count >= ret[j].count

-----------------------------------------------------------------------------
(* The read operations of one page run: render_kpi_grid passes the same
   filter mapping to the four KPI operations *)

KpiOps == {"calculate_kpi_1_range_by_segment",
           "calculate_kpi_2_acceleration_by_brand",
           "calculate_kpi_3_battery_vs_efficiency",
           "calculate_kpi_4_distribution_by_body_type"}

ReadOps == KpiOps \cup {"query_with_filters", "get_distinct_values", "get_record_count"}

\* the tables of SpecReads: what one file in schema order leaves in the table
ReadTables ==
    {load_csv(<<>>, [header |-> Schema, lines |-> l]).table :
        l \in SeqsUpTo(CsvLines, MaxBatch)}

\* the filter mappings of SpecReads
ReadSelections ==
    {f \in Selections : Len(f) <= 1 \/ Len(f[1][2]) = 0}

\* the columns SpecReads asks the distinct values of
ReadColumns == {"brand", "range_km"}

NotYet == [outcome |-> "none", rows |-> <<>>]

\* the result of the KPI operation of the given name
Kpi(name, tbl, filters) ==
    CASE name = "calculate_kpi_1_range_by_segment" ->
            calculate_kpi_1_range_by_segment(tbl, filters)
      [] name = "calculate_kpi_2_acceleration_by_brand" ->
            calculate_kpi_2_acceleration_by_brand(tbl, filters)
      [] name = "calculate_kpi_3_battery_vs_efficiency" ->
            calculate_kpi_3_battery_vs_efficiency(tbl, filters)
      [] name = "calculate_kpi_4_distribution_by_body_type" ->
            calculate_kpi_4_distribution_by_body_type(tbl, filters)

InitReads ==
    /\ table \in ReadTables
    /\ selected_filters \in ReadSelections
    /\ session_state = NewSession
    /\ call = [op |-> "init", arg |-> NoArg, outcome |-> "ok", ret |-> 0,
               before |-> get_record_count(table),
               first |-> [k \in KpiOps |-> NotYet], again |-> FALSE]

\* a read operation that would take the first stored row out of the table
ObserveAndConsume(name, arg, r) ==
    /\ call' = [op |-> name, arg |-> arg, outcome |-> r.outcome, ret |-> r.rows,
                before |-> get_record_count(table),
                first |-> IF name \in KpiOps /\ call.first[name] = NotYet
                          THEN [call.first EXCEPT ![name] = r]
                          ELSE call.first,
                again |-> name \in KpiOps /\ call.first[name] # NotYet]
    /\ table' = IF table = <<>> THEN table ELSE Tail(table)
    /\ UNCHANGED <<selected_filters, session_state>>

\* a read operation in a page run: a SELECT, which writes nothing to the
\* table; the call record also keeps the result each KPI operation gave the
\* first time it was invoked, and whether this invocation is a repeated one
Observe(name, arg, r) ==
    /\ call' = [op |-> name, arg |-> arg, outcome |-> r.outcome, ret |-> r.rows,
                before |-> get_record_count(table),
                first |-> IF name \in KpiOps /\ call.first[name] = NotYet
                          THEN [call.first EXCEPT ![name] = r]
                          ELSE call.first,
                again |-> name \in KpiOps /\ call.first[name] # NotYet]
    /\ UNCHANGED <<table, selected_filters, session_state>>

ObserveQuery ==
    Observe("query_with_filters", selected_filters,
            query_with_filters(table, selected_filters))

ObserveDistinctValues ==
    \E column \in ReadColumns :
        Observe("get_distinct_values", column,
                [outcome |-> "ok", rows |-> get_distinct_values(table, column)])

ObserveRecordCount ==
    Observe("get_record_count", NoArg,
            [outcome |-> "ok", rows |-> get_record_count(table)])

ObserveKpi ==
    \E name \in KpiOps :
        Observe(name, selected_filters, Kpi(name, table, selected_filters))

NextReads ==
    \/ ObserveQuery
    \/ ObserveDistinctValues
    \/ ObserveRecordCount
    \/ ObserveKpi

SpecReads == InitReads /\ [][NextReads]_vars

-----------------------------------------------------------------------------
(* Properties of the steps of the table *)

\* the stored row of a data line of a file in schema order
StoredLine(line) ==
    [c \in Columns |->
        IF c \in numeric_columns THEN to_numeric(line[c])
        ELSE IF line[c] = <<>> THEN NULL ELSE line[c]]

\* C15: in every step the stored rows stay as they are, or a load_csv that
\* returned appends one row per valid line of its file behind the rows stored
\* before, which stay as they were, whether or not an equal row is stored
\* already (for a file in schema order, the appended rows are the valid lines
\* in their order), or clear_all_data leaves the table empty; no other change
\* of the table happens.
C15_TableChangesByLoadOrClear ==
    [][\/ table' = table
       \/ /\ call'.op = "load_csv"
          /\ call'.outcome = "ok"
          /\ Len(table') = Len(table) + Cardinality(ValidLines(call'.arg))
          /\ SubSeq(table', 1, Len(table)) = table
          /\ call'.arg.header = Schema
                => SubSeq(table', Len(table) + 1, Len(table'))
                     = [k \in 1..Cardinality(ValidLines(call'.arg)) |->
                          StoredLine(SelectSeq(call'.arg.lines, LAMBDA l :
                              \A c \in required_columns : l[c] # <<>>)[k])]
       \/ /\ call'.op = "clear_all_data"
          /\ table' = <<>>]_vars

\* a load_csv that stored a row equal to a row stored before
C15_Witness ==
    /\ call.op = "load_csv"
    /\ call.before > 0
    /\ call.ret > 0
    /\ Len(table) = call.before + call.ret
    /\ table[1] = table[Len(table)]

\* C16: when a line of the file has its four required cells and a text that
\* is not a number in a numeric cell, load_csv does not raise, counts the
\* line, and stores its row with NULL in that numeric field and the other
\* fields as the line has them.
C16_TextInNumericCellStoredAsNull ==
    (call.op = "load_csv" /\ required_columns \subseteq HeaderColumns(call.arg))
        => \A k \in ValidLines(call.arg) :
              (\E c \in numeric_columns :
                    /\ call.arg.lines[k][c] # <<>>
                    /\ ~IsNumericText(call.arg.lines[k][c]))
                 => LET at == call.before
                                + Cardinality({j \in ValidLines(call.arg) : j <= k})
                    IN  /\ call.outcome = "ok"
                        /\ call.ret = Cardinality(ValidLines(call.arg))
                        /\ at <= Len(table)
                        /\ table[at] = StoredLine(call.arg.lines[k])

\* C17: the order of the columns of the file is insignificant: a load_csv of
\* a file whose header holds the columns of the schema in any order returns
\* and stores what the load of the same lines under the header in schema
\* order returns and stores, every cell in the field its header names.
C17_ColumnOrderInsignificant ==
    (call.op = "load_csv" /\ HeaderColumns(call.arg) = Columns)
        => LET inOrder == load_csv(<<>>, [header |-> Schema, lines |-> call.arg.lines])
           IN  /\ call.outcome = inOrder.outcome
               /\ call.ret = inOrder.ret
               /\ SubSeq(table, call.before + 1, Len(table)) = inOrder.table

-----------------------------------------------------------------------------
(* Properties of the database file over several runs *)

\* C18: get_record_count right after a DuckDBManager is constructed returns
\* 0, whatever earlier runs loaded into the same database file.
C18_EmptyAtStartup ==
    (call.op = "get_record_count" /\ call.after.op = "init") => call.ret = 0

\* C18, amended: get_record_count right after a DuckDBManager is constructed
\* returns the number of rows the database file held when it was opened (0
\* for a new file): the construction neither removes nor adds a row.
C18_StartupKeepsStoredRows ==
    (call.op = "get_record_count" /\ call.after.op = "init")
        => call.ret = call.after.before

\* get_record_count right after a DuckDBManager was constructed on a file in
\* which an earlier run left rows
C18_Witness ==
    /\ call.op = "get_record_count"
    /\ call.after.op = "init"
    /\ call.after.before > 0
    /\ call.ret > 0

-----------------------------------------------------------------------------
(* The bar chart of the acceleration by brand *)

\* the number of brands of the largest table of SpecRender
MaxBrands == 16

\* the number of rows render_kpi_2_acceleration_by_brand keeps
TopBrands == 15

BrandLetters == <<"B", "C", "J", "L", "M", "N", "O", "S", "T", "U", "X">>

\* the name of the i-th brand of the tables of SpecRender
BrandName(i) ==
    <<BrandLetters[((i - 1) \div Len(BrandLetters)) + 1],
      BrandLetters[((i - 1) % Len(BrandLetters)) + 1]>>

\* the stored row of a complete line of the i-th brand with the given
\* acceleration
BrandRow(i, acc) ==
    [load_csv(<<>>, [header |-> Schema, lines |-> <<LineComplete>>]).table[1]
        EXCEPT !["brand"] = BrandName(i), !["acceleration_0_100_s"] = acc]

\* the tables of SpecRender: one row per brand, up to MaxBrands brands, with
\* accelerations that repeat (modulus 5) or not (modulus 19), in an order
\* that is not the order of the brands, and NULL where the remainder is 0
RenderTables ==
    {[i \in 1..n |->
        BrandRow(i, IF (i * k) % m = 0 THEN NaN ELSE (i * k) % m)] :
        n \in 0..MaxBrands, k \in {1, 3, 7}, m \in {5, 19}}

\* the filter mappings of SpecRender
RenderSelections == {<<>>, << <<"segment", << <<"C">> >> >> >>}

\* DataFrame.head(n)
head(data, n) == SubSeq(data, 1, IF Len(data) < n THEN Len(data) ELSE n)

\* a render_kpi_2_acceleration_by_brand that would draw every row
render_kpi_2_acceleration_by_brand_all_rows(data) ==
    IF Len(data) = 0
    THEN [figure |-> FALSE, groups |-> <<>>]
    ELSE [figure |-> TRUE, groups |-> data]

\* VisualizationEngine.render_kpi_2_acceleration_by_brand: None for an empty
\* frame, else the figure, given by the rows whose brands are its bars, in
\* the order of the x axis
render_kpi_2_acceleration_by_brand(data) ==
    IF Len(data) = 0
    THEN [figure |-> FALSE, groups |-> <<>>]
    ELSE [figure |-> TRUE, groups |-> head(data, TopBrands)]

InitRender ==
    /\ table \in RenderTables
    /\ call = [op |-> "init", arg |-> NoArg, outcome |-> "ok", ret |-> 0,
               before |-> get_record_count(table)]
    /\ selected_filters = <<>>
    /\ session_state = NewSession

RenderCalculateKpi2 ==
    \E f \in RenderSelections :
        Read("calculate_kpi_2_acceleration_by_brand",
             calculate_kpi_2_acceleration_by_brand(table, f), f)

\* render_kpi_2_acceleration_by_brand on the frame calculate_kpi_2 returned
RenderKpi2 ==
    /\ call.op = "calculate_kpi_2_acceleration_by_brand"
    /\ call.outcome = "ok"
    /\ call' = [op |-> "render_kpi_2_acceleration_by_brand", arg |-> call.ret,
                outcome |-> "ok",
                ret |-> render_kpi_2_acceleration_by_brand(call.ret),
                before |-> get_record_count(table)]
    /\ UNCHANGED <<table, selected_filters, session_state>>

NextRender ==
    \/ RenderCalculateKpi2
    \/ RenderKpi2

SpecRender == InitRender /\ [][NextRender]_vars

\* brand a has a smaller mean acceleration than brand b; a brand without any
\* acceleration has no mean, and none is smaller than it is
SmallerMean(a, b) == a.n > 0 /\ (b.n = 0 \/ MeanGreater(b, a))

\* C19: render_kpi_2_acceleration_by_brand, given the result of
\* calculate_kpi_2_acceleration_by_brand, draws at most 15 brands: all of
\* them, in the order given, when there are at most 15, and otherwise 15 of
\* them, in ascending order of the mean, such that no brand left out has a
\* smaller mean than a brand drawn.
C19_FifteenSmallestMeans ==
    call.op = "render_kpi_2_acceleration_by_brand"
        => LET data == call.arg
               groups == call.ret.groups
           IN  /\ Len(groups) <= 15
               /\ Len(data) <= 15 => groups = data
               /\ Len(data) > 15 =>
                     /\ Len(groups) = 15
                     /\ Cardinality({groups[i].key : i \in 1..Len(groups)}) = 15
                     /\ Elements(groups) \subseteq Elements(data)
                     /\ \A i, j \in 1..Len(groups) :
                           i < j => ~SmallerMean(groups[j], groups[i])
                     /\ \A d \in Elements(data) \ Elements(groups) :
                           \A i \in 1..Len(groups) : ~SmallerMean(d, groups[i])

\* a chart of a result with more than 15 brands in which the last brand in
\* the order of the names is drawn and a brand that has a mean is left out
C19_Witness ==
    /\ call.op = "render_kpi_2_acceleration_by_brand"
    /\ Len(call.arg) > 15
    /\ Len(call.ret.groups) = 15
    /\ \E i \in 1..Len(call.ret.groups) :
          call.ret.groups[i].key = BrandName(Len(call.arg))
    /\ \E d \in Elements(call.arg) \ Elements(call.ret.groups) : d.n > 0

-----------------------------------------------------------------------------
(* The query on a selection and on its validated mapping *)

\* C20: for every table and every selection mapping, with or without entries
\* whose list is empty, query_with_filters on the selection does what
\* query_with_filters on the mapping apply_filters makes of the selection
\* does: the same rows, or a raise in both; an entry with an empty list
\* restricts nothing.
C20_QueryOfSelectionAsOfValidated ==
    call.op = "query_with_filters"
        => LET validated == apply_filters(call.arg).validated_filters
               onValidated == query_with_filters(table, validated)
           IN  /\ call.outcome = onValidated.outcome
               /\ call.ret = onValidated.rows

\* a query_with_filters on a selection with an entry whose list is empty and
\* an entry with a value, on a table of which it returns some rows and not
\* others
C20_Witness ==
    /\ call.op = "query_with_filters"
    /\ \E i \in 1..Len(call.arg) : Len(call.arg[i][2]) = 0
    /\ \E i \in 1..Len(call.arg) : Len(call.arg[i][2]) > 0
    /\ call.outcome = "ok"
    /\ Len(call.ret) > 0
    /\ Len(call.ret) < Len(table)

-----------------------------------------------------------------------------
(* Properties of a load that fails *)

\* C21: load_csv of a file that cannot be read or whose header lacks a
\* required column raises, and a load_csv that raises, for these or any
\* other reason, leaves the stored rows exactly as they were before the call.
C21_FailedLoadStoresNothing ==
    /\ []((call.op = "load_csv"
             /\ ~(required_columns \subseteq HeaderColumns(call.arg)))
            => call.outcome = "raise")
    /\ [][(call'.op = "load_csv" /\ call'.outcome = "raise") => table' = table]_vars

\* a load_csv that raised, on a table that held rows, for a file without the
\* car_body_type column whose line has the other required cells
C21_Witness ==
    /\ call.op = "load_csv"
    /\ call.outcome = "raise"
    /\ call.before > 0
    /\ get_record_count(table) = call.before
    /\ ~(required_columns \subseteq HeaderColumns(call.arg))
    /\ Len(call.arg.lines) > 0

-----------------------------------------------------------------------------
(* The dashboard session: the buttons of DashboardApp and the sections a run
   of the page renders *)

\* the files uploaded in SpecSession: those of at most one data line
SessionBatches == {b \in Batches : Len(b.lines) <= 1}

\* the tables the database file holds when a session starts: the table of a
\* new file, or the rows an earlier session left
SessionTables ==
    {load_csv(<<>>, [header |-> Schema, lines |-> l]).table :
        l \in SeqsUpTo({LineComplete}, 1)}

\* a session starts: _initialize_session_state; the call record of
\* SpecSession also keeps whether a load_csv returned since the last
\* clear_all_data, and the number of rows the last such load_csv added to
\* the table
InitSession ==
    /\ table \in SessionTables
    /\ call = [op |-> "init", arg |-> NoArg, outcome |-> "ok", ret |-> 0,
               before |-> get_record_count(table),
               loaded |-> FALSE, inserted |-> 0]
    /\ selected_filters = <<>>
    /\ session_state = NewSession

\* a render_file_upload_section that would set the flag before it calls
\* load_csv
upload_button_flag_first(session, r) ==
    IF r.outcome = "ok"
    THEN [data_loaded |-> TRUE, record_count |-> r.ret]
    ELSE [session EXCEPT !.data_loaded = TRUE]

\* the session state after the button of render_file_upload_section, r being
\* what load_csv did: the two assignments follow the call inside the try, so
\* an exception skips them
upload_button(session, r) ==
    IF r.outcome = "ok"
    THEN [data_loaded |-> TRUE, record_count |-> r.ret]
    ELSE session

\* the session state after the button of render_reset_button
reset_button(session) == [data_loaded |-> FALSE, record_count |-> 0]

\* the button "Charger les données" with an uploaded file
ClickLoad ==
    \E batch \in SessionBatches :
        /\ Len(table) + Len(batch.lines) <= MaxRows
        /\ LET r == load_csv(table, batch)
           IN  /\ table' = r.table
               /\ session_state' = upload_button(session_state, r)
               /\ call' = [op |-> "load_csv", arg |-> batch, outcome |-> r.outcome,
                           ret |-> r.ret, before |-> get_record_count(table),
                           loaded |-> (r.outcome = "ok" \/ call.loaded),
                           inserted |-> IF r.outcome = "ok"
                                        THEN Len(r.table) - Len(table)
                                        ELSE call.inserted]
               /\ UNCHANGED selected_filters

\* the button "Charger les données" without an uploaded file: a warning
ClickLoadWithoutFile ==
    /\ call' = [op |-> "render_file_upload_section", arg |-> NoArg,
                outcome |-> "ok", ret |-> 0, before |-> get_record_count(table),
                loaded |-> call.loaded, inserted |-> call.inserted]
    /\ UNCHANGED <<table, selected_filters, session_state>>

\* the button "Effacer les données"
ClickClear ==
    /\ table' = clear_all_data(table)
    /\ session_state' = reset_button(session_state)
    /\ call' = [op |-> "clear_all_data", arg |-> NoArg, outcome |-> "ok", ret |-> 0,
                before |-> get_record_count(table),
                loaded |-> FALSE, inserted |-> 0]
    /\ UNCHANGED selected_filters

\* render_filter_section in a run of the page: the filters are offered, from
\* the distinct values of the table, only when data_loaded is set
RenderFilterSection ==
    /\ session_state.data_loaded
    /\ call' = [op |-> "get_available_filters", arg |-> NoArg, outcome |-> "ok",
                ret |-> [c \in {"brand", "segment", "car_body_type"} |->
                            get_distinct_values(table, c)],
                before |-> get_record_count(table),
                loaded |-> call.loaded, inserted |-> call.inserted]
    /\ UNCHANGED <<table, selected_filters, session_state>>

\* render_kpi_grid in a run of the page: the KPI operations are invoked only
\* when data_loaded is set
RenderKpiGrid ==
    /\ session_state.data_loaded
    /\ \E name \in KpiOps :
          LET r == Kpi(name, table, selected_filters)
          IN  call' = [op |-> name, arg |-> selected_filters, outcome |-> r.outcome,
                       ret |-> r.rows, before |-> get_record_count(table),
                       loaded |-> call.loaded, inserted |-> call.inserted]
    /\ UNCHANGED <<table, selected_filters, session_state>>

NextSession ==
    \/ ClickLoad
    \/ ClickLoadWithoutFile
    \/ ClickClear
    \/ RenderFilterSection
    \/ RenderKpiGrid

SpecSession == InitSession /\ [][NextSession]_vars

\* C22: in a session, data_loaded is set exactly when a load returned since
\* the last clear (a load of no valid line too), record_count is the number
\* of rows the last such load added to the table and 0 when there is none, a
\* load that raises changes neither, and a clear leaves the table empty with
\* data_loaded unset and record_count 0; the filters are offered and the KPI
\* operations invoked only after a load returned since the last clear.
C22_SessionBookkeeping ==
    /\ [](/\ session_state.data_loaded = call.loaded
          /\ session_state.record_count = call.inserted
          /\ ~call.loaded => call.inserted = 0)
    /\ [][(call'.op = "load_csv" /\ call'.outcome = "raise")
            => session_state' = session_state]_vars
    /\ [](call.op = "clear_all_data"
            => /\ table = <<>>
               /\ ~session_state.data_loaded
               /\ session_state.record_count = 0)
    /\ [](call.op \in KpiOps \cup {"get_available_filters"} => call.loaded)

\* a load that raised, after a load that added a row, with the session state
\* still that of the earlier load
C22_Witness ==
    /\ call.op = "load_csv"
    /\ call.outcome = "raise"
    /\ call.loaded
    /\ call.inserted = 1
    /\ session_state.data_loaded
    /\ session_state.record_count = 1
    /\ get_record_count(table) > 0

-----------------------------------------------------------------------------
(* The body-type distribution and the rows of the query *)

\* the files of SpecBodyType: the header in schema order, or with
\* battery_type and car_body_type exchanged, over at most one data line that
\* has its four required cells
BodyTypeBatches ==
    [header : {Schema, Swap(Schema, 4, 9)},
     lines : SeqsUpTo({LineComplete, LineOptionalMissing}, 1)]

LoadBodyTypeFile ==
    \E batch \in BodyTypeBatches :
        /\ Len(table) + Len(batch.lines) <= MaxRows
        /\ LET r == load_csv(table, batch)
           IN  /\ table' = r.table
               /\ call' = [op |-> "load_csv", arg |-> batch, outcome |-> r.outcome,
                           ret |-> r.ret, before |-> get_record_count(table)]
               /\ UNCHANGED <<selected_filters, session_state>>

NextBodyType ==
    \/ LoadBodyTypeFile
    \/ QueryWithFilters
    \/ CalculateKpi4

SpecBodyType == Init /\ [][NextBodyType]_vars

\* C23: for every filter set, calculate_kpi_4_distribution_by_body_type
\* returns when query_with_filters does, and its counts then sum to the
\* number of rows query_with_filters returns for the same filter set.
C23_CountsSumToQueriedRows ==
    (call.op = "calculate_kpi_4_distribution_by_body_type" /\ IsFilterSet(call.arg))
        => LET q == query_with_filters(table, call.arg)
           IN  /\ call.outcome = q.outcome
               /\ q.outcome = "ok" => SumCounts(call.ret) = Len(q.rows)

====
